---- MODULE Spec2Model ----
(***************************************************************************)
(* A model of the consensus / reconciliation / backtest core of the        *)
(* trading-agents repository.                                              *)
(*                                                                         *)
(*   - TraderAgent (src/agents/trader.py): the quantitative consensus of   *)
(*     the analysts' responses and its reconciliation with the LLM's own   *)
(*     recommendation.  Specification SpecTrader.                          *)
(*   - BacktestEngine (src/backtesting/backtest_engine.py): run_backtest   *)
(*     as a state machine over the rebalance dates.  Specification Spec.   *)
(*                                                                         *)
(* Numbers.  Confidences and weights are hundredths (0.35 is 35, a         *)
(* confidence of 80% is 80).  Every quantity the code obtains by a         *)
(* division is kept as an exact fraction [num, den] in lowest terms, so    *)
(* nothing is rounded that the code does not round.                        *)
(***************************************************************************)
EXTENDS Integers, Sequences, FiniteSets, TLC

VARIABLES
    \* ---- TraderAgent.make_decision
    responses,        \* trading_agents: the analysts' AgentResponse list
    final,            \* the AgentResponse make_decision returned, or None
    \* ---- BacktestEngine.run_backtest
    pc,               \* where run_backtest is
    inp,              \* the call's arguments and what the data provider holds
    current_date,     \* the loop's current_date (a day number)
    current_capital,  \* self.current_capital, a fraction
    current_position, \* the local current_position: a position dict or None
    trades,           \* self.trades
    decision,         \* the TradingDecision the latest analysis returned, or None
    step,             \* what the latest loop iteration did, and at which date
    result,           \* what run_backtest returned, or None
    \* ---- RiskManager._calculate_risk_metrics
    risk_request,     \* the arguments of a call: stats, trading_decision, hints
    risk_metrics,     \* the dict the call returned, or None
    \* ---- BaseAgent._call_llm
    conversation_history, \* self.conversation_history
    llm_pc,           \* where _call_llm is: "idle", "trying", "returned", "raised"
    user_message,     \* the call's user_message ("" when there is no call)
    attempt,          \* the loop's attempt, 0 .. max_retries - 1
    llm_event         \* what the latest step of _call_llm did

vars == <<responses, final, pc, inp, current_date, current_capital,
          current_position, trades, decision, step, result,
          risk_request, risk_metrics,
          conversation_history, llm_pc, user_message, attempt, llm_event>>

traderVars == <<responses, final>>
riskVars == <<risk_request, risk_metrics>>
llmVars == <<conversation_history, llm_pc, user_message, attempt, llm_event>>
backtestVars == <<pc, inp, current_date, current_capital, current_position,
                  trades, decision, step, result>>

\* Python's None (a record, so that it compares with the dicts it stands in for)
None == [none |-> TRUE]

(***************************************************************************)
(* Exact fractions.                                                        *)
(***************************************************************************)
Abs(x) == IF x < 0 THEN -x ELSE x

RECURSIVE GCD(_, _)
GCD(a, b) == IF b = 0 THEN a ELSE GCD(b, a % b)

\* n/d in lowest terms with a positive denominator (d # 0).
Frac(n, d) ==
    LET g == GCD(Abs(n), Abs(d))
        s == IF d < 0 THEN -1 ELSE 1
    IN  [num |-> s * (n \div g), den |-> s * (d \div g)]

FInt(n) == [num |-> n, den |-> 1]
FAdd(a, b) == Frac(a.num * b.den + b.num * a.den, a.den * b.den)
FSub(a, b) == Frac(a.num * b.den - b.num * a.den, a.den * b.den)
FMul(a, b) == Frac(a.num * b.num, a.den * b.den)
FDiv(a, b) == Frac(a.num * b.den, a.den * b.num)
FLt(a, b) == a.num * b.den < b.num * a.den
FLe(a, b) == a.num * b.den <= b.num * a.den

RECURSIVE SumTo(_, _)
\* f[1] + ... + f[n] for an integer-valued sequence or function f
SumTo(f, n) == IF n = 0 THEN 0 ELSE f[n] + SumTo(f, n - 1)

Sum(s) == SumTo(s, Len(s))

(***************************************************************************)
(* TraderAgent                                                             *)
(***************************************************************************)
Recommendations == {"STRONG BUY", "BUY", "HOLD", "SELL", "STRONG SELL"}

\* self.agent_weights, in hundredths
agent_weights ==
    [a \in {"Technical Analyst", "Fundamental Analyst", "Sentiment Analyst"} |->
        CASE a = "Technical Analyst" -> 35
          [] a = "Fundamental Analyst" -> 35
          [] a = "Sentiment Analyst" -> 30]

\* self.agent_weights.get(agent_name, 0.33)
WeightOf(agent_name) ==
    IF agent_name \in DOMAIN agent_weights THEN agent_weights[agent_name] ELSE 33

\* sum(self.agent_weights.values())
SumOfWeights ==
    agent_weights["Technical Analyst"] + agent_weights["Fundamental Analyst"]
        + agent_weights["Sentiment Analyst"]

\* A faulty score table, against which C13 is tested: STRONG BUY scores 3
rec_to_score_wide(rec) ==
    CASE rec = "STRONG BUY" -> 3
      [] rec = "BUY" -> 1
      [] rec = "HOLD" -> 0
      [] rec = "SELL" -> -1
      [] rec = "STRONG SELL" -> -2
      [] OTHER -> 0

\* rec_to_score.get(recommendation, 0)
rec_to_score(rec) ==
    CASE rec = "STRONG BUY" -> 2
      [] rec = "BUY" -> 1
      [] rec = "HOLD" -> 0
      [] rec = "SELL" -> -1
      [] rec = "STRONG SELL" -> -2
      [] OTHER -> 0

score_to_rec(score) ==
    CASE score = 2 -> "STRONG BUY"
      [] score = 1 -> "BUY"
      [] score = 0 -> "HOLD"
      [] score = -1 -> "SELL"
      [] score = -2 -> "STRONG SELL"

\* A faulty rounding, against which C26 is tested: a tie goes up
RoundHalfUp(n, d) ==
    LET m == 2 * n + d
    IN  IF m >= 0 THEN m \div (2 * d) ELSE -((-m + 2 * d - 1) \div (2 * d))

\* Python's round() of the fraction n/d (d > 0): to the nearest integer, a tie
\* to the even one.
Round(n, d) ==
    LET fl == IF n >= 0 THEN n \div d ELSE -((-n + d - 1) \div d)
        twice == 2 * (n - fl * d)      \* twice the fractional part, times d
    IN  IF twice < d THEN fl
        ELSE IF twice > d THEN fl + 1
        ELSE IF fl % 2 = 0 THEN fl ELSE fl + 1

Max(a, b) == IF a >= b THEN a ELSE b
Min(a, b) == IF a <= b THEN a ELSE b

\* The scores of the responses' recommendations
Scores(rs) == [i \in 1..Len(rs) |-> rec_to_score(rs[i].recommendation)]

\* A faulty fallback, against which C15 is tested: when nothing weighs in, the
\* plain mean of the scores
ConsensusScoreMeanFallback(rs) ==
    LET n == Len(rs)
        scores == Scores(rs)
        adjusted == [i \in 1..n |-> WeightOf(rs[i].agent_name) * rs[i].confidence]
        weighted_scores == [i \in 1..n |-> scores[i] * adjusted[i]]
        total_weight == SumTo(adjusted, n)
    IN  IF total_weight > 0
        THEN Frac(SumTo(weighted_scores, n), total_weight)
        ELSE IF n > 0 THEN Frac(SumTo(scores, n), n)
        ELSE FInt(0)

\* consensus_score: sum(weighted_scores) / total_weight, or 0
ConsensusScore(rs) ==
    LET n == Len(rs)
        scores == Scores(rs)
        \* adjusted_weight = weight * confidence, in 1/10000
        adjusted == [i \in 1..n |-> WeightOf(rs[i].agent_name) * rs[i].confidence]
        weighted_scores == [i \in 1..n |-> scores[i] * adjusted[i]]
        total_weight == SumTo(adjusted, n)
    IN  IF total_weight > 0
        THEN Frac(SumTo(weighted_scores, n), total_weight)
        ELSE FInt(0)

\* np.var: the population variance, (n * sum s^2 - (sum s)^2) / n^2
Variance(xs) ==
    LET n == Len(xs)
        squares == [i \in 1..n |-> xs[i] * xs[i]]
    IN  Frac(n * SumTo(squares, n) - SumTo(xs, n) * SumTo(xs, n), n * n)

\* A faulty agreement level, against which C16 is tested: the variance is
\* taken over the scores scaled by the confidences (in hundredths)
AgreementLevelOfScaled(rs) ==
    LET n == Len(rs)
        scaled == [i \in 1..n |-> Scores(rs)[i] * rs[i].confidence]
        variance == IF n > 1 THEN FDiv(Variance(scaled), FInt(10000)) ELSE FInt(0)
        raw_agreement == FSub(FInt(1), FDiv(variance, FInt(4)))
    IN  IF FLt(raw_agreement, FInt(0)) THEN FInt(0) ELSE raw_agreement

\* agreement_level = max(0, 1 - variance / max_variance)
AgreementLevel(rs) ==
    LET scores == Scores(rs)
        variance == IF Len(scores) > 1 THEN Variance(scores) ELSE FInt(0)
        max_variance == FInt(4)
        raw_agreement == FSub(FInt(1), FDiv(variance, max_variance))
    IN  IF FLt(raw_agreement, FInt(0)) THEN FInt(0) ELSE raw_agreement

\* _calculate_quantitative_consensus(responses); confidences in hundredths
CalculateQuantitativeConsensus(rs) ==
    LET n == Len(rs)
        consensus_score == ConsensusScore(rs)
        rounded_score ==
            Max(-2, Min(2, Round(consensus_score.num, consensus_score.den)))
        \* confidence (1/100) * weight (1/100), over the sum of ALL configured weights
        conf_weight == [i \in 1..n |-> rs[i].confidence * WeightOf(rs[i].agent_name)]
        avg_confidence == Frac(SumTo(conf_weight, n), 100 * SumOfWeights)
    IN  [recommendation |-> score_to_rec(rounded_score),
         consensus_score |-> consensus_score,
         agreement_level |-> AgreementLevel(rs),
         consensus_confidence |-> avg_confidence]

\* A faulty _is_contradictory, against which C10 is tested: a HOLD consensus
\* contradicts nothing
IsContradictoryDirectional(dec, consensus) ==
    LET buy_recs == {"STRONG BUY", "BUY"}
        sell_recs == {"STRONG SELL", "SELL"}
    IN  \/ consensus \in buy_recs /\ dec \in sell_recs
        \/ consensus \in sell_recs /\ dec \in buy_recs

\* A faulty _is_contradictory, against which C27 is tested: any decision that
\* differs from the consensus contradicts it
IsContradictoryAnyDifference(dec, consensus) == dec # consensus

\* _is_contradictory(decision, consensus)
IsContradictory(dec, consensus) ==
    LET buy_recs == {"STRONG BUY", "BUY"}
        sell_recs == {"STRONG SELL", "SELL"}
    IN  \/ consensus \in buy_recs /\ dec \in sell_recs
        \/ consensus \in sell_recs /\ dec \in buy_recs
        \/ consensus = "HOLD" /\ dec \in {"STRONG BUY", "BUY", "SELL", "STRONG SELL"}

\* A faulty replace, against which C11 is tested: nothing is removed
StripStrongNothing(rec) == rec

\* llm_recommendation.replace('STRONG ', '')
StripStrong(rec) ==
    CASE rec = "STRONG BUY" -> "BUY"
      [] rec = "STRONG SELL" -> "SELL"
      [] OTHER -> rec

\* A faulty adjustment, against which C12 is tested: the confidence is scaled
\* by the agreement level alone
AdjustedConfidenceScaled(llm_conf, agreement_level) ==
    FMul(llm_conf, agreement_level)

\* adjusted_confidence = llm_confidence * (0.5 + 0.5 * agreement_level)
AdjustedConfidence(llm_conf, agreement_level) ==
    FMul(llm_conf, FAdd(Frac(1, 2), FMul(Frac(1, 2), agreement_level)))

\* _reconcile_decisions(quant_decision, llm_recommendation, llm_confidence, agents):
\* the pair (recommendation, confidence); llm_confidence in hundredths
ReconcileDecisions(quant_decision, llm_recommendation, llm_confidence) ==
    LET agreement_level == quant_decision.agreement_level
        quant_rec == quant_decision.recommendation
        llm_conf == Frac(llm_confidence, 100)
        adjusted_confidence == AdjustedConfidence(llm_conf, agreement_level)
        trust_llm == [recommendation |-> llm_recommendation,
                      confidence |-> adjusted_confidence]
    IN  IF FLt(Frac(7, 10), agreement_level)
        THEN IF IsContradictory(llm_recommendation, quant_rec)
             THEN [recommendation |-> quant_rec,
                   confidence |-> quant_decision.consensus_confidence]
             ELSE trust_llm
        ELSE IF FLt(Frac(1, 2), agreement_level)
        THEN IF /\ llm_recommendation \in {"STRONG BUY", "STRONG SELL"}
                /\ quant_rec \in {"BUY", "SELL", "HOLD"}
             THEN [recommendation |-> StripStrong(llm_recommendation),
                   confidence |->
                       FDiv(FAdd(llm_conf, quant_decision.consensus_confidence),
                            FInt(2))]
             ELSE trust_llm
        ELSE trust_llm

\* make_decision: the AgentResponse it returns, given the LLM's parsed
\* (recommendation, confidence)
MakeDecisionResult(rs, llm_recommendation, llm_confidence) ==
    LET trading_agents == SelectSeq(rs, LAMBDA r : r.agent_name # "Risk Manager")
        quant_decision == CalculateQuantitativeConsensus(trading_agents)
        rec == ReconcileDecisions(quant_decision, llm_recommendation, llm_confidence)
    IN  [recommendation |-> rec.recommendation,
         confidence |-> rec.confidence,
         quantitative_decision |-> quant_decision,
         llm_recommendation |-> llm_recommendation,
         llm_confidence |-> llm_confidence,
         was_overridden |-> rec.recommendation # llm_recommendation]

(***************************************************************************)
(* RiskManager._calculate_risk_metrics                                     *)
(*                                                                         *)
(* stats: [current_price, volatility] (a price and a percentage, both      *)
(* integers here).  hints: what the regular expressions found in the LLM's *)
(* text, each a fraction or None: llm_position_pct (of the portfolio),     *)
(* llm_stop_price and llm_take_price.                                      *)
(***************************************************************************)
\* Config.MAX_POSITION_SIZE, STOP_LOSS_PERCENT, TAKE_PROFIT_PERCENT
MAX_POSITION_SIZE == Frac(10, 100)
STOP_LOSS_PERCENT == Frac(5, 100)
TAKE_PROFIT_PERCENT == Frac(15, 100)

NoHints == [position |-> None, stop |-> None, take |-> None]

\* f"{position_size * 100:.1f}%": the position as a count of tenths of a percent
FormatPercent1(position_size) ==
    LET tenths == FMul(position_size, FInt(1000))
    IN  Round(tenths.num, tenths.den)

\* float(text.rstrip('%')) / 100
ParsePercent1(tenths) == Frac(tenths, 1000)

\* Python truthiness of an optional number: None and 0 both count as absent
Given(h) == h # None /\ h.num # 0

\* "BUY" in trading_decision.upper(); else "SELL" in trading_decision.upper()
IsBuy(trading_decision) == trading_decision \in {"BUY", "STRONG BUY"}
IsSell(trading_decision) == trading_decision \in {"SELL", "STRONG SELL"}

\* risk_level by volatility
RiskLevel(volatility) ==
    IF volatility < 15 THEN "Low"
    ELSE IF volatility < 25 THEN "Medium"
    ELSE IF volatility < 40 THEN "High"
    ELSE "Very High"

\* volatility_adjustment by volatility
VolatilityAdjustment(volatility) ==
    IF volatility < 15 THEN Frac(100, 100)
    ELSE IF volatility < 25 THEN Frac(75, 100)
    ELSE IF volatility < 40 THEN Frac(50, 100)
    ELSE Frac(30, 100)

\* A faulty position size, against which C17 is tested: the hint is not
\* checked against MAX_POSITION_SIZE
PositionSizeUncapped(volatility, trading_decision, llm_position_pct) ==
    LET base_position ==
            IF IsBuy(trading_decision)
            THEN FMul(MAX_POSITION_SIZE, VolatilityAdjustment(volatility))
            ELSE FMul(FMul(MAX_POSITION_SIZE, VolatilityAdjustment(volatility)),
                      Frac(7, 10))
    IN  IF IsBuy(trading_decision) \/ IsSell(trading_decision)
        THEN IF Given(llm_position_pct) /\ FLe(Frac(1, 100), llm_position_pct)
             THEN llm_position_pct
             ELSE base_position
        ELSE FInt(0)

\* position_size: the hint when it is within [0.01, MAX_POSITION_SIZE], else
\* the base position; 0.0 for HOLD
PositionSize(volatility, trading_decision, llm_position_pct) ==
    LET position_ok ==
            /\ Given(llm_position_pct)
            /\ FLe(Frac(1, 100), llm_position_pct)
            /\ FLe(llm_position_pct, MAX_POSITION_SIZE)
        base_position ==
            IF IsBuy(trading_decision)
            THEN FMul(MAX_POSITION_SIZE, VolatilityAdjustment(volatility))
            ELSE FMul(FMul(MAX_POSITION_SIZE, VolatilityAdjustment(volatility)),
                      Frac(7, 10))
    IN  IF IsBuy(trading_decision) \/ IsSell(trading_decision)
        THEN IF position_ok THEN llm_position_pct ELSE base_position
        ELSE FInt(0)

\* A faulty stop, against which C18 is tested: a long's hint is accepted up to
\* current_price * 1.01
StopLossPriceLoose(current_price, trading_decision, llm_stop_price) ==
    LET above == FMul(current_price, Frac(101, 100))
    IN  IF IsBuy(trading_decision)
        THEN IF Given(llm_stop_price) /\ FLt(llm_stop_price, above)
             THEN llm_stop_price
             ELSE FMul(current_price, FSub(FInt(1), STOP_LOSS_PERCENT))
        ELSE IF IsSell(trading_decision)
        THEN IF Given(llm_stop_price) /\ FLt(above, llm_stop_price)
             THEN llm_stop_price
             ELSE FMul(current_price, FAdd(FInt(1), STOP_LOSS_PERCENT))
        ELSE None

\* stop_loss_price: below the price for a long, above it for a short, None
\* for HOLD
StopLossPrice(current_price, trading_decision, llm_stop_price) ==
    LET below == FMul(current_price, Frac(99, 100))
        above == FMul(current_price, Frac(101, 100))
    IN  IF IsBuy(trading_decision)
        THEN IF Given(llm_stop_price) /\ FLt(llm_stop_price, below)
             THEN llm_stop_price
             ELSE FMul(current_price, FSub(FInt(1), STOP_LOSS_PERCENT))
        ELSE IF IsSell(trading_decision)
        THEN IF Given(llm_stop_price) /\ FLt(above, llm_stop_price)
             THEN llm_stop_price
             ELSE FMul(current_price, FAdd(FInt(1), STOP_LOSS_PERCENT))
        ELSE None

\* A faulty target, against which C19 is tested: whatever is not a BUY is
\* taken for a short
TakeProfitPriceNoHold(current_price, trading_decision, llm_take_price) ==
    LET below == FMul(current_price, Frac(99, 100))
        above == FMul(current_price, Frac(101, 100))
    IN  IF IsBuy(trading_decision)
        THEN IF Given(llm_take_price) /\ FLt(above, llm_take_price)
             THEN llm_take_price
             ELSE FMul(current_price, FAdd(FInt(1), TAKE_PROFIT_PERCENT))
        ELSE IF Given(llm_take_price) /\ FLt(llm_take_price, below)
        THEN llm_take_price
        ELSE FMul(current_price, FSub(FInt(1), TAKE_PROFIT_PERCENT))

\* take_profit_price: above the price for a long, below it for a short, None
\* for HOLD
TakeProfitPrice(current_price, trading_decision, llm_take_price) ==
    LET below == FMul(current_price, Frac(99, 100))
        above == FMul(current_price, Frac(101, 100))
    IN  IF IsBuy(trading_decision)
        THEN IF Given(llm_take_price) /\ FLt(above, llm_take_price)
             THEN llm_take_price
             ELSE FMul(current_price, FAdd(FInt(1), TAKE_PROFIT_PERCENT))
        ELSE IF IsSell(trading_decision)
        THEN IF Given(llm_take_price) /\ FLt(llm_take_price, below)
             THEN llm_take_price
             ELSE FMul(current_price, FSub(FInt(1), TAKE_PROFIT_PERCENT))
        ELSE None

\* |a - b|
FDist(a, b) == IF FLt(a, b) THEN FSub(b, a) ELSE FSub(a, b)

\* "N/A"
NotAvailable == [not_available |-> TRUE]

\* f"{x:.2f}": x as a count of hundredths
Format2(x) == Round(x.num * 100, x.den)

\* The risk/reward ratio and the maximal loss as the dict holds them: the
\* ratio in hundredths or "N/A", the loss in cents
RiskReward(current_price, position_size, stop_loss_price, take_profit_price) ==
    LET sized == FLt(FInt(0), position_size) /\ Given(stop_loss_price)
        risk_distance == FDist(current_price, stop_loss_price)
        reward_distance ==
            IF Given(take_profit_price) THEN FDist(take_profit_price, current_price)
            ELSE FInt(0)
        risk_reward_ratio ==
            IF sized /\ FLt(FInt(0), risk_distance)
            THEN FDiv(reward_distance, risk_distance)
            ELSE FInt(0)
        portfolio_value == FInt(10000)
        max_loss_dollars ==
            IF sized
            THEN FMul(FMul(portfolio_value, position_size),
                      FDiv(risk_distance, current_price))
            ELSE FInt(0)
    IN  [risk_reward_ratio |->
             IF FLt(FInt(0), risk_reward_ratio)
             THEN [hundredths |-> Format2(risk_reward_ratio)]
             ELSE NotAvailable,
         max_loss_dollars |-> Format2(max_loss_dollars)]

\* _calculate_risk_metrics(stats, trading_decision, llm_response): the dict.
\* position_size is the formatted text, a count of tenths of a percent.  (A
\* short's base position at a volatility in [15, 25) is 5.25%, a tie of the
\* format that the floats decide; nothing here reads that digit.)
CalculateRiskMetrics(stats, trading_decision, hints) ==
    LET current_price == FInt(stats.current_price)
        position_size ==
            PositionSize(stats.volatility, trading_decision, hints.position)
        stop_loss_price == StopLossPrice(current_price, trading_decision, hints.stop)
        take_profit_price ==
            TakeProfitPrice(current_price, trading_decision, hints.take)
        ratios == RiskReward(current_price, position_size, stop_loss_price,
                             take_profit_price)
    IN  [risk_level |-> RiskLevel(stats.volatility),
         position_size |-> FormatPercent1(position_size),
         stop_loss_price |-> stop_loss_price,
         take_profit_price |-> take_profit_price,
         risk_reward_ratio |-> ratios.risk_reward_ratio,
         max_loss_dollars |-> ratios.max_loss_dollars]

(***************************************************************************)
(* BacktestEngine                                                          *)
(*                                                                         *)
(* Dates are day numbers.  A bar is [Date, Close, Low, High] with integer  *)
(* prices; price_data is a sequence of bars with increasing dates.  A      *)
(* position is the dict _open_position returns and a trade a BacktestTrade;*)
(* the fields that are only carried along (ticker, confidence) are left    *)
(* out.                                                                    *)
(***************************************************************************)
\* The first of the rows a pandas mask selects (.iloc[0])
SetMin(S) == CHOOSE x \in S : \A y \in S : x <= y

\* date_data = price_data[Date == date], or else price_data[Date >= date].iloc[0:1]:
\* the index of its first row, 0 when it has none
DateData(price_data, date) ==
    LET exact == {i \in 1..Len(price_data) : price_data[i].Date = date}
        later == {i \in 1..Len(price_data) : price_data[i].Date >= date}
    IN  IF exact # {} THEN SetMin(exact)
        ELSE IF later # {} THEN SetMin(later)
        ELSE 0

\* A faulty _open_position, against which C29 is tested: the position is dated
\* by the bar it is priced from
OpenPositionBarDated(date, dec, price_data, capital) ==
    LET row == DateData(price_data, date)
        entry_price == FInt(price_data[row].Close)
        position_size_pct == ParsePercent1(dec.risk_assessment.position_size)
        position_value == FMul(capital, position_size_pct)
        shares == FDiv(position_value, entry_price)
    IN  IF row = 0
        THEN [raised |-> TRUE, position |-> None]
        ELSE [raised |-> FALSE,
              position |-> [entry_date |-> price_data[row].Date,
                            entry_price |-> entry_price,
                            shares |-> shares,
                            position_value |-> position_value,
                            decision |-> dec,
                            stop_loss |-> dec.risk_assessment.stop_loss_price,
                            take_profit |-> dec.risk_assessment.take_profit_price]]

\* _open_position(ticker, date, decision, price_data): the position, or the
\* IndexError of date_data['Close'].iloc[0] on an empty date_data
OpenPosition(date, dec, price_data, capital) ==
    LET row == DateData(price_data, date)
        entry_price == FInt(price_data[row].Close)
        position_size_pct == ParsePercent1(dec.risk_assessment.position_size)
        position_value == FMul(capital, position_size_pct)
        shares == FDiv(position_value, entry_price)
    IN  IF row = 0
        THEN [raised |-> TRUE, position |-> None]
        ELSE [raised |-> FALSE,
              position |-> [entry_date |-> date,
                            entry_price |-> entry_price,
                            shares |-> shares,
                            position_value |-> position_value,
                            decision |-> dec,
                            stop_loss |-> dec.risk_assessment.stop_loss_price,
                            take_profit |-> dec.risk_assessment.take_profit_price]]

\* A faulty scan, against which C7 is tested: the close date's bar is left out
BetweenDataStrict(price_data, entry_date, date) ==
    {i \in 1..Len(price_data) :
        price_data[i].Date > entry_date /\ price_data[i].Date < date}

\* The dates the exit-path scan of _close_position reads:
\* (Date > entry_date) & (Date <= date)
BetweenData(price_data, entry_date, date) ==
    {i \in 1..Len(price_data) :
        price_data[i].Date > entry_date /\ price_data[i].Date <= date}

\* A faulty exit rule, against which C6 is tested: the target is looked at first
ExitKindTargetFirst(position, between, price_data) ==
    IF \E i \in between : FLe(position.take_profit, FInt(price_data[i].High))
    THEN "target"
    ELSE IF \E i \in between : FLe(FInt(price_data[i].Low), position.stop_loss)
    THEN "stop"
    ELSE "close"

\* The first branch of the scan that applies: "stop", "target" or "close"
ExitKind(position, between, price_data) ==
    IF \E i \in between : FLe(FInt(price_data[i].Low), position.stop_loss)
    THEN "stop"
    ELSE IF \E i \in between : FLe(position.take_profit, FInt(price_data[i].High))
    THEN "target"
    ELSE "close"

\* A faulty capital update, against which C2 is tested: the loss or gain is
\* recorded in the trade and not booked
UpdateCapitalDropped(capital, profit_loss) == capital

\* self.current_capital += profit_loss
UpdateCapital(capital, profit_loss) == FAdd(capital, profit_loss)

\* A faulty record, against which C22 is tested: the newest trade comes first
RecordTradeInFront(ledger, trade) == <<trade>> \o ledger

\* self.trades.append(trade)
RecordTrade(ledger, trade) == Append(ledger, trade)

\* _close_position(position, date, price_data): the capital and the ledger it
\* leaves, or the IndexError of date_data['Close'].iloc[0], raised before
\* anything is written
ClosePosition(position, date, price_data, capital, ledger, initial_capital) ==
    LET row == DateData(price_data, date)
        exit_price == FInt(price_data[row].Close)
        between == BetweenData(price_data, position.entry_date, date)
        kind == ExitKind(position, between, price_data)
        stop_hit == kind = "stop"
        target_hit == kind = "target"
        actual_exit ==
            IF stop_hit THEN position.stop_loss
            ELSE IF target_hit THEN position.take_profit
            ELSE exit_price
        profit_loss == FMul(FSub(actual_exit, position.entry_price), position.shares)
        return_pct ==
            FMul(FDiv(FSub(actual_exit, position.entry_price), position.entry_price),
                 FInt(100))
        trade == [entry_date |-> position.entry_date,
                  entry_price |-> position.entry_price,
                  exit_date |-> date,
                  exit_price |-> actual_exit,
                  recommendation |-> position.decision.final_recommendation,
                  position_size |-> FDiv(position.position_value, initial_capital),
                  return_pct |-> return_pct,
                  profit_loss |-> profit_loss,
                  stop_hit |-> stop_hit,
                  target_hit |-> target_hit]
    IN  IF row = 0
        THEN [raised |-> TRUE, current_capital |-> capital, trades |-> ledger]
        ELSE [raised |-> FALSE,
              current_capital |-> UpdateCapital(capital, profit_loss),
              trades |-> RecordTrade(ledger, trade)]

(***************************************************************************)
(* The calls of run_backtest and the market data provider.                 *)
(*                                                                         *)
(* start_date is day 1 and end_date is the call's end_day.  The provider   *)
(* has a bar on each of the days before MinLookback, then the days of the  *)
(* tail up to end_day, each with a bar or (a weekend, a holiday, the       *)
(* provider's exclusive end) without one, and today's bar, after the       *)
(* period.  The calls of Spec have a tail of TailDays days with bars of    *)
(* every shape; the calls of SpecLedger have a longer tail, long enough    *)
(* for several trades, of fewer shapes.                                    *)
(***************************************************************************)
\* self.initial_capital
InitialCapital == 10000

\* "if len(analysis_data) < 30"
MinLookback == 30

\* The number of days from the first possible decision date to end_date.
TailDays == 3

EndDay == MinLookback + TailDays - 1

\* What a bar of the tail looks like: quiet, a dip through the stop, a rally
\* through the target, and both within the bar.
BarShapes ==
    {[Close |-> 100, Low |-> 100, High |-> 100],
     [Close |-> 100, Low |-> 90, High |-> 100],
     [Close |-> 120, Low |-> 100, High |-> 120],
     [Close |-> 100, Low |-> 90, High |-> 120]}

QuietBar == [Close |-> 100, Low |-> 100, High |-> 100]

\* The closes today's bar may have
LivePrices == {100, 120}

\* What the risk manager's text may hold: nothing usable, or a position of 5%
\* with a stop at 90 and a target at 130.
RiskHints ==
    {NoHints, [position |-> Frac(5, 100), stop |-> FInt(90), take |-> FInt(130)]}

\* What the language model may answer at a decision point: any
\* recommendation with a risk text that holds nothing usable, or a BUY with
\* either risk text
LlmAnswers ==
    [recommendation : Recommendations, hints : {NoHints}]
    \cup [recommendation : {"BUY"}, hints : RiskHints]

RebalanceChoices == {1, 2}

WithDate(shape, d) ==
    [Date |-> d, Close |-> shape.Close, Low |-> shape.Low, High |-> shape.High]

\* The last day of a tail: the call's end_date
LastDay(tail) == CHOOSE d \in DOMAIN tail : \A e \in DOMAIN tail : e <= d

\* The provider's history: tail[d] is the shape of day d's bar, or None
History(tail, live_close) ==
    LET today == LastDay(tail) + 1
        day == [d \in 1..today |->
                   IF d < MinLookback THEN WithDate(QuietBar, d)
                   ELSE IF d = today
                   THEN WithDate([Close |-> live_close, Low |-> live_close,
                                  High |-> live_close], d)
                   ELSE IF tail[d] = None THEN None
                   ELSE WithDate(tail[d], d)]
    IN  SelectSeq(day, LAMBDA b : b # None)

QuietTail == [d \in MinLookback..EndDay |-> QuietBar]

Tails == [MinLookback..EndDay -> BarShapes \cup {None}]

\* The number of days from the first possible decision date to end_date in
\* the calls of SpecLedger.
LedgerDays == 4

LedgerEndDay == MinLookback + LedgerDays - 1

\* What a bar of the longer tail looks like: quiet, or a rally (or, in
\* LedgerTails, no bar on that day)
LedgerShapes ==
    {[Close |-> 100, Low |-> 100, High |-> 100],
     [Close |-> 120, Low |-> 100, High |-> 120]}

LedgerTails == [MinLookback..LedgerEndDay -> LedgerShapes \cup {None}]

\* The histories, by tail and by today's close
HistoryOf ==
    [tail \in Tails \cup LedgerTails, c \in LivePrices |-> History(tail, c)]

\* What the provider holds for the ticker of a call
ProviderHistory(call) == HistoryOf[call.tail, call.live_close]

\* The bars of the period (today's bar is after it), by tail
PeriodOf ==
    [tail \in Tails \cup LedgerTails |->
        SelectSeq(History(tail, 100),
                  LAMBDA b : 1 <= b.Date /\ b.Date <= LastDay(tail))]

\* The calls: the ordinary ones, one whose date strings do not parse, one for
\* which the provider has no data, one with more days between decisions than
\* there are bars.
Calls ==
    [dates_ok : {TRUE}, has_data : {TRUE}, rebalance_days : RebalanceChoices,
     tail : Tails, live_close : LivePrices, volatility : {20},
     end_day : {EndDay}]
    \cup
    [dates_ok : BOOLEAN, has_data : BOOLEAN, rebalance_days : {1, MinLookback + 10},
     tail : {QuietTail}, live_close : {100}, volatility : {20},
     end_day : {EndDay}]

\* The calls of SpecLedger: decisions every day, every second or every third
\* day over the longer tail
LedgerCalls ==
    [dates_ok : {TRUE}, has_data : {TRUE}, rebalance_days : {1, 2, 3},
     tail : LedgerTails, live_close : {100}, volatility : {10},
     end_day : {LedgerEndDay}]

\* fetcher.get_stock_data(ticker, start_date, end_date): the bars of the
\* period; a ValueError when there are none
GetStockData(call) ==
    IF call.has_data
    THEN PeriodOf[call.tail]
    ELSE <<>>

\* MarketDataFetcher.get_summary_statistics on the provider's latest history
\* (prepare_analysis_data -> get_stock_data(ticker), the last three months up
\* to today): current_price is the close of the latest bar.  The volatility,
\* a standard deviation of returns, is read off the provider as it is.
PrepareAnalysisData(provider) ==
    [statistics |->
        [current_price |-> ProviderHistory(provider)[Len(ProviderHistory(provider))].Close,
         volatility |-> provider.volatility]]

\* TradingAgentOrchestrator.analyze_stock(ticker, enable_debate=False): the
\* TradingDecision.  llm is what the language model answered: the trader's
\* reconciled recommendation and the hints in the risk manager's text.
AnalyzeStock(provider, llm) ==
    LET market_data == PrepareAnalysisData(provider)
    IN  [final_recommendation |-> llm.recommendation,
         risk_assessment |->
             CalculateRiskMetrics(market_data.statistics, llm.recommendation,
                                  llm.hints),
         hints |-> llm.hints]

\* _analyze_at_date(ticker, date, historical_data): market_data is built from
\* historical_data and then not handed on; analyze_stock fetches its own.
AnalyzeAtDate(date, historical_data, provider, llm) ==
    LET n == Len(historical_data)
        recent_data == SubSeq(historical_data, Max(1, n - 89), n)   \* tail(90)
        market_data ==
            [statistics |->
                [current_price |-> recent_data[Len(recent_data)].Close]]
    IN  AnalyzeStock(provider, llm)

\* price_data[price_data['Date'] <= current_date]
AnalysisData(price_data, date) == SelectSeq(price_data, LAMBDA b : b.Date <= date)

\* A faulty except clause, against which C4 is tested: the position is dropped
CaughtLiquidates(dec, capital, position, ledger) ==
    [kind |-> "failed", decision |-> dec, current_capital |-> capital,
     current_position |-> None, trades |-> ledger]

\* "except Exception as e: print(...)": the exception is dropped, and the engine
\* and the loop's current_position stay as the try block left them
Caught(dec, capital, position, ledger) ==
    [kind |-> "failed", decision |-> dec, current_capital |-> capital,
     current_position |-> position, trades |-> ledger]

\* The body of the loop's try block at current_date, the analysis having
\* answered llm (or raised, llm = None): what it leaves behind.
\* prev is the decision of an earlier iteration, initial the initial capital;
\* kind "failed" says that an exception reached the except clause.
TryBlock(date, price_data, provider, llm, capital, position, ledger, prev, initial) ==
    LET dec == AnalyzeAtDate(date, AnalysisData(price_data, date), provider, llm)
        rec == dec.final_recommendation
        closing == position # None /\ rec \in {"SELL", "STRONG SELL", "HOLD"}
        closed == ClosePosition(position, date, price_data, capital, ledger, initial)
        opened == OpenPosition(date, dec, price_data, capital)
    IN  IF llm = None THEN Caught(prev, capital, position, ledger)
        ELSE IF closing
        THEN IF closed.raised
             THEN Caught(dec, closed.current_capital, position, closed.trades)
             ELSE [kind |-> "executed", decision |-> dec,
                   current_capital |-> closed.current_capital,
                   current_position |-> None, trades |-> closed.trades]
        ELSE IF rec \in {"BUY", "STRONG BUY"}
        THEN IF opened.raised
             THEN Caught(dec, capital, position, ledger)
             ELSE [kind |-> "executed", decision |-> dec, current_capital |-> capital,
                   current_position |-> opened.position, trades |-> ledger]
        ELSE [kind |-> "executed", decision |-> dec, current_capital |-> capital,
              current_position |-> position, trades |-> ledger]

\* A faulty test, against which C21 is tested: a break-even trade counts as won
IsWinningOrEven(t) == t.profit_loss.num >= 0

\* "t.profit_loss > 0"
IsWinning(t) == t.profit_loss.num > 0

\* _calculate_results: {} when there are no trades
CalculateResults(ledger, capital, initial_capital) ==
    LET num_trades == Len(ledger)
        winning_trades == {i \in 1..num_trades : IsWinning(ledger[i])}
        losing_trades == {i \in 1..num_trades : ledger[i].profit_loss.num < 0}
    IN  IF num_trades = 0
        THEN [empty |-> TRUE]
        ELSE [empty |-> FALSE,
              initial_capital |-> initial_capital,
              final_capital |-> capital,
              total_return_pct |->
                  FMul(FDiv(FSub(capital, initial_capital), initial_capital),
                       FInt(100)),
              num_trades |-> num_trades,
              winning_trades |-> Cardinality(winning_trades),
              losing_trades |-> Cardinality(losing_trades),
              win_rate |-> Frac(Cardinality(winning_trades) * 100, num_trades),
              trades |-> ledger]

(***************************************************************************)
(* SpecTrader: the analysts' responses are collected one by one, then      *)
(* make_decision is called once.                                           *)
(***************************************************************************)
\* The largest number of responses handed to make_decision.
MaxSignals == 3

\* The sources a response may name: a configured analyst and one the weight
\* table does not know (the same source may respond more than once).
AgentNames == {"Technical Analyst", "Guest Analyst"}

\* Confidences, in hundredths (parse_recommendation clamps to [0, 1]).
Confidences == {0, 50, 100}

\* The LLM's own parsed confidence, in hundredths.
LlmConfidences == {50, 100}

\* The consensus reads the list only through sums over it, so the
\* permutations of a list give one result: each collection of responses is
\* built once, in the order of this key.
ResponseKey(r) ==
    (IF r.agent_name = "Technical Analyst" THEN 0 ELSE 1) * 10000
        + (rec_to_score(r.recommendation) + 2) * 1000 + r.confidence

\* An analyst's response is appended to the list (_run_parallel_analysis).
AnalystResponds ==
    /\ final = None
    /\ Len(responses) < MaxSignals
    /\ \E a \in AgentNames, r \in Recommendations, c \in Confidences :
          LET resp == [agent_name |-> a, recommendation |-> r, confidence |-> c]
          IN  /\ responses # <<>> =>
                    ResponseKey(responses[Len(responses)]) <= ResponseKey(resp)
              /\ responses' = Append(responses, resp)
    /\ UNCHANGED <<final, backtestVars, riskVars, llmVars>>

\* trader.make_decision(ticker, agent_responses, market_data)
MakeDecision ==
    /\ final = None
    /\ \E r \in Recommendations, c \in LlmConfidences :
          final' = MakeDecisionResult(responses, r, c)
    /\ UNCHANGED <<responses, backtestVars, riskVars, llmVars>>


\* run_backtest is not running.
BacktestIdle ==
    /\ pc = "idle"
    /\ inp = None
    /\ current_date = 0
    /\ current_capital = FInt(0)
    /\ current_position = None
    /\ trades = <<>>
    /\ decision = None
    /\ step = None
    /\ result = None

\* _calculate_risk_metrics is not running.
RiskIdle ==
    /\ risk_request = None
    /\ risk_metrics = None

\* An agent just constructed: no conversation, no call of _call_llm.
LlmIdle ==
    /\ conversation_history = <<>>
    /\ llm_pc = "idle"
    /\ user_message = ""
    /\ attempt = 0
    /\ llm_event = [kind |-> "none"]

InitTrader ==
    /\ responses = <<>>
    /\ final = None
    /\ BacktestIdle
    /\ RiskIdle
    /\ LlmIdle

NextTrader == AnalystResponds \/ MakeDecision

SpecTrader == InitTrader /\ [][NextTrader]_vars

(***************************************************************************)
(* SpecRisk: _calculate_risk_metrics is called once, on any of the         *)
(* arguments below.                                                        *)
(***************************************************************************)
\* Annualized volatilities, in percent: each band and its edges
Volatilities == {0, 14, 15, 20, 24, 25, 39, 40, 80}

\* Current prices
Prices == {50, 100}

\* What the regular expression for the position may find, as a fraction of
\* the portfolio: nothing, 0%, 0.5%, 1%, 5%, 10%, 10.1%, 50%
PositionHints ==
    {None, FInt(0), Frac(5, 1000), Frac(1, 100), Frac(5, 100), Frac(10, 100),
     Frac(101, 1000), Frac(50, 100)}

\* What the regular expressions for the stop and the target may find: nothing,
\* 0, and prices below, at and above 0.99 and 1.01 times the current prices
PriceHints ==
    {None, FInt(0), FInt(45), Frac(99, 2), FInt(50), Frac(101, 2), FInt(90),
     FInt(99), FInt(100), FInt(101), FInt(102), FInt(130)}

RiskRequests ==
    [stats : [current_price : Prices, volatility : Volatilities],
     trading_decision : Recommendations,
     hints : [position : PositionHints, stop : PriceHints, take : PriceHints]]

InitRisk ==
    /\ risk_request \in RiskRequests
    /\ risk_metrics = None
    /\ responses = <<>>
    /\ final = None
    /\ BacktestIdle
    /\ LlmIdle

\* risk_metrics = self._calculate_risk_metrics(stats, trading_decision, response)
CalculateRisk ==
    /\ risk_request # None
    /\ risk_metrics = None
    /\ risk_metrics' = CalculateRiskMetrics(risk_request.stats,
                                            risk_request.trading_decision,
                                            risk_request.hints)
    /\ UNCHANGED <<risk_request, traderVars, backtestVars, llmVars>>

NextRisk == CalculateRisk

SpecRisk == InitRisk /\ [][NextRisk]_vars


(***************************************************************************)
(* Spec: one call of run_backtest(ticker, start_date, end_date,            *)
(* rebalance_days) on an engine just constructed.                          *)
(***************************************************************************)
Init ==
    /\ responses = <<>>
    /\ final = None
    /\ pc = "start"
    /\ inp \in Calls
    /\ current_date = 0
    /\ current_capital = FInt(InitialCapital)
    /\ current_position = None
    /\ trades = <<>>
    /\ decision = None
    /\ step = None
    /\ result = None
    /\ RiskIdle
    /\ LlmIdle

\* Lines 54-87: parse the dates, fetch the bars, reset the engine.
StartBacktest ==
    /\ pc = "start"
    /\ LET price_data == GetStockData(inp)
       IN  IF ~inp.dates_ok
           THEN \* pd.to_datetime raises outside any try
                /\ pc' = "raised"
                /\ UNCHANGED <<current_date, result>>
           ELSE IF price_data = <<>> \/ Len(price_data) < inp.rebalance_days
           THEN \* "Error fetching data" / "Not enough historical data": return {}
                /\ pc' = "returned"
                /\ result' = [empty |-> TRUE]
                /\ UNCHANGED current_date
           ELSE /\ pc' = "loop"
                /\ current_date' = 1
                /\ UNCHANGED result
    /\ current_capital' = IF pc' = "loop" THEN FInt(InitialCapital) ELSE current_capital
    /\ trades' = IF pc' = "loop" THEN <<>> ELSE trades
    /\ UNCHANGED <<inp, current_position, decision, step, traderVars, riskVars, llmVars>>

\* A faulty iteration, against which C25 is tested: the continue comes before
\* the date is advanced
LoopSkipStalls ==
    /\ pc = "loop"
    /\ current_date < inp.end_day
    /\ Len(AnalysisData(GetStockData(inp), current_date)) < MinLookback
    /\ step' = [kind |-> "skipped", date |-> current_date]
    /\ UNCHANGED <<pc, inp, current_date, current_capital, current_position,
                   trades, decision, result, traderVars, riskVars, llmVars>>

\* An iteration with fewer than 30 bars up to current_date: continue.
LoopSkip ==
    /\ pc = "loop"
    /\ current_date < inp.end_day
    /\ Len(AnalysisData(GetStockData(inp), current_date)) < MinLookback
    /\ current_date' = current_date + inp.rebalance_days
    /\ step' = [kind |-> "skipped", date |-> current_date]
    /\ UNCHANGED <<pc, inp, current_capital, current_position, trades, decision,
                   result, traderVars, riskVars, llmVars>>

\* An iteration that reaches the try block.
LoopStep ==
    /\ pc = "loop"
    /\ current_date < inp.end_day
    /\ Len(AnalysisData(GetStockData(inp), current_date)) >= MinLookback
    /\ \E llm \in LlmAnswers \cup {None} :
          \E after \in {TryBlock(current_date, GetStockData(inp), inp, llm,
                                current_capital, current_position, trades, decision,
                                FInt(InitialCapital))} :
              /\ current_capital' = after.current_capital
              /\ current_position' = after.current_position
              /\ trades' = after.trades
              /\ decision' = after.decision
              /\ step' = [kind |-> after.kind, date |-> current_date]
    /\ current_date' = current_date + inp.rebalance_days
    /\ UNCHANGED <<pc, inp, result, traderVars, riskVars, llmVars>>

\* The loop is over: close any remaining position at end, compute the results.
LoopExit ==
    /\ pc = "loop"
    /\ ~(current_date < inp.end_day)
    /\ IF current_position = None
       THEN /\ pc' = "returned"
            /\ result' = CalculateResults(trades, current_capital, FInt(InitialCapital))
            /\ UNCHANGED <<current_capital, trades>>
       ELSE \E closed \in {ClosePosition(current_position, inp.end_day, GetStockData(inp),
                                         current_capital, trades,
                                         FInt(InitialCapital))} :
               /\ current_capital' = closed.current_capital
               /\ trades' = closed.trades
               /\ IF closed.raised
                  THEN \* the IndexError leaves run_backtest
                       /\ pc' = "raised"
                       /\ UNCHANGED result
                  ELSE /\ pc' = "returned"
                       /\ result' = CalculateResults(closed.trades,
                                                     closed.current_capital,
                                                     FInt(InitialCapital))
    /\ step' = [kind |-> "exit", date |-> inp.end_day]
    /\ UNCHANGED <<inp, current_date, current_position, decision, traderVars,
                   riskVars, llmVars>>

Next == StartBacktest \/ LoopSkip \/ LoopStep \/ LoopExit

Spec == Init /\ [][Next]_vars

(***************************************************************************)
(* SpecLedger: one call of run_backtest on an engine just constructed,     *)
(* over a period long enough for several trades.                           *)
(***************************************************************************)
InitLedger ==
    /\ responses = <<>>
    /\ final = None
    /\ pc = "start"
    /\ inp \in LedgerCalls
    /\ current_date = 0
    /\ current_capital = FInt(InitialCapital)
    /\ current_position = None
    /\ trades = <<>>
    /\ decision = None
    /\ step = None
    /\ result = None
    /\ RiskIdle
    /\ LlmIdle

SpecLedger == InitLedger /\ [][Next]_vars

(***************************************************************************)
(* SpecFair: one call of run_backtest, of those of SpecLedger with a bar   *)
(* on every day, on a thread that nothing holds up: a step that can be     *)
(* taken is taken.  The fairness condition is WF_vars(Next) written        *)
(* without ENABLED: a step of Next can be taken exactly while pc is        *)
(* "start" or "loop", and every step of Next changes pc or current_date.   *)
(***************************************************************************)
InitFair ==
    /\ InitLedger
    /\ \A d \in DOMAIN inp.tail : inp.tail[d] # None

SpecFair ==
    /\ InitFair
    /\ [][Next]_vars
    /\ ([]<>(pc \notin {"start", "loop"}) \/ []<><<Next>>_vars)

(***************************************************************************)
(* BaseAgent._call_llm (src/agents/base_agent.py)                          *)
(*                                                                         *)
(* A message is [role, content].  What the API raises is the text of the   *)
(* exception, a sequence of words; what it returns is the content of the   *)
(* first choice.  SpecLlm: an agent is called again and again, each call   *)
(* on one of UserMessages, and each request to the API returns an answer   *)
(* or raises one of ApiErrors.                                             *)
(***************************************************************************)
max_retries == 5

MaxExchanges == 2

UserMessages == {"analyze AAPL", "assess the risk"}

Answers == {"BUY with 80% confidence"}

ApiErrors ==
    { <<"Error", "code", "503", "UNAVAILABLE">>,
      <<"The", "model", "is", "Overloaded">>,
      <<"429", "Too", "Many", "Requests">>,
      <<"400", "Bad", "Request">>,
      <<"Connection", "timed", "out">> }

\* str.lower() on one word.
Lower(word) ==
    CASE word = "Error" -> "error"
      [] word = "UNAVAILABLE" -> "unavailable"
      [] word = "The" -> "the"
      [] word = "Overloaded" -> "overloaded"
      [] word = "Too" -> "too"
      [] word = "Many" -> "many"
      [] word = "Requests" -> "requests"
      [] word = "Bad" -> "bad"
      [] word = "Request" -> "request"
      [] word = "Connection" -> "connection"
      [] OTHER -> word

\* error_msg = str(e).lower()
ErrorMsg(e) == [i \in DOMAIN e |-> Lower(e[i])]

\* "503" in error_msg or "overloaded" in error_msg or "429" in error_msg,
\* with every error taken for an overload.
IsOverloadAnyError(error_msg) == TRUE

\* "503" in error_msg or "overloaded" in error_msg or "429" in error_msg
IsOverload(error_msg) ==
    \E i \in DOMAIN error_msg : error_msg[i] \in {"503", "overloaded", "429"}

\* conversation_history[-4:]
LastFour(history) ==
    SubSeq(history, IF Len(history) > 4 THEN Len(history) - 3 ELSE 1, Len(history))

\* The messages of a request: the system prompt, the last four entries of the
\* history and the user message.
Messages(history, message) ==
    <<[role |-> "system", content |-> "system prompt"]>>
        \o LastFour(history)
        \o <<[role |-> "user", content |-> message]>>

\* The whole seconds of the sleep after a failed attempt: 2 ** attempt.
Backoff(n) == 2 ^ n

\* _call_llm(user_message) is called; the loop starts at attempt 0.
CallLlm ==
    /\ llm_pc # "trying"
    /\ Len(conversation_history) < 2 * MaxExchanges
    /\ \E m \in UserMessages : user_message' = m
    /\ llm_pc' = "trying"
    /\ attempt' = 0
    /\ llm_event' = [kind |-> "called"]
    /\ UNCHANGED <<conversation_history, traderVars, backtestVars, riskVars>>

\* The request of this attempt returns: both messages are appended to the
\* history and the assistant's is returned.
CreateReturns ==
    /\ llm_pc = "trying"
    /\ \E assistant_message \in Answers :
        /\ conversation_history' = conversation_history
                \o <<[role |-> "user", content |-> user_message],
                     [role |-> "assistant", content |-> assistant_message]>>
        /\ llm_event' = [kind |-> "ok", attempt |-> attempt,
                         messages |-> Messages(conversation_history, user_message),
                         returned |-> assistant_message]
    /\ llm_pc' = "returned"
    /\ UNCHANGED <<user_message, attempt, traderVars, backtestVars, riskVars>>

\* The request of this attempt raises: an overload is slept on and retried,
\* and the loop running out raises the "Failed after 5 attempts" exception;
\* any other exception is raised again at once.
CreateRaises ==
    /\ llm_pc = "trying"
    /\ \E e \in ApiErrors :
        IF IsOverload(ErrorMsg(e))
        THEN /\ llm_event' = [kind |-> "overloaded", attempt |-> attempt, error |-> e,
                              messages |-> Messages(conversation_history, user_message),
                              slept |-> Backoff(attempt)]
             /\ IF attempt + 1 < max_retries
                THEN attempt' = attempt + 1 /\ llm_pc' = "trying"
                ELSE attempt' = attempt /\ llm_pc' = "raised"
        ELSE /\ llm_event' = [kind |-> "other", attempt |-> attempt, error |-> e,
                              messages |-> Messages(conversation_history, user_message)]
             /\ attempt' = attempt
             /\ llm_pc' = "raised"
    /\ UNCHANGED <<conversation_history, user_message, traderVars, backtestVars, riskVars>>

InitLlm ==
    /\ LlmIdle
    /\ RiskIdle
    /\ BacktestIdle
    /\ responses = <<>>
    /\ final = None

NextLlm == CallLlm \/ CreateReturns \/ CreateRaises

SpecLlm == InitLlm /\ [][NextLlm]_vars

(***************************************************************************)
(* The properties of run_backtest, stated over Spec.                       *)
(***************************************************************************)
BuyRecs == {"BUY", "STRONG BUY"}

\* The step from the current state is an iteration of the date loop whose try
\* block ran to its end.
DecisionExecuted ==
    /\ pc = "loop"
    /\ current_date' > current_date
    /\ step'.kind = "executed"

\* The step from the current state is an iteration of the date loop that was
\* skipped: too few bars, or an exception reached the except clause.
DecisionSkipped ==
    /\ pc = "loop"
    /\ current_date' > current_date
    /\ step'.kind \in {"skipped", "failed"}

\* The step from the current state closes current_position: a trade is appended.
Closes == current_position # None /\ Len(trades') = Len(trades) + 1

RECURSIVE SumProfitLoss(_, _)
SumProfitLoss(ledger, n) ==
    IF n = 0 THEN FInt(0)
    ELSE FAdd(SumProfitLoss(ledger, n - 1), ledger[n].profit_loss)

\* C1: a BUY or STRONG BUY decision at a rebalance date while a position is
\* open is a no-op: the open position is unchanged after the step and no second
\* position is opened.
C1_BuyWhileOpenIsNoOp ==
    [][(/\ DecisionExecuted
        /\ current_position # None
        /\ decision'.final_recommendation \in BuyRecs)
       => current_position' = current_position]_vars

\* C2: capital conservation: after every step of run_backtest, and in the
\* returned result, the capital is initial_capital plus the sum of profit_loss
\* over the trades of the ledger.
C2_CapitalConservation ==
    /\ current_capital =
          FAdd(FInt(InitialCapital), SumProfitLoss(trades, Len(trades)))
    /\ (pc = "returned" /\ ~result.empty) =>
          /\ result.trades = trades
          /\ result.final_capital =
                FAdd(result.initial_capital,
                     SumProfitLoss(result.trades, Len(result.trades)))

\* A run has returned a result with a trade that lost or won money.
C2_Witness ==
    /\ pc = "returned"
    /\ ~result.empty
    /\ result.final_capital # FInt(InitialCapital)

\* C3: when the date loop ends with a position still open, the position is
\* force-closed: a trade for it is appended, the capital is updated by its
\* profit_loss and run_backtest returns its result, whatever the bars are.
C3_ForceCloseAtEnd ==
    [][(pc = "loop" /\ ~(current_date < inp.end_day) /\ current_position # None)
       => /\ pc' = "returned"
          /\ Len(trades') = Len(trades) + 1
          /\ trades'[Len(trades')].entry_date = current_position.entry_date
          /\ current_capital' =
                FAdd(current_capital, trades'[Len(trades')].profit_loss)
          /\ result'.trades = trades']_vars

\* C4: a decision point that is skipped, for too few bars or because something
\* in the try block raised, leaves the capital, the open position and the
\* ledger as they were, and the loop goes on to the next rebalance date.
C4_SkippedStepCarriesForward ==
    [][DecisionSkipped
       => /\ current_capital' = current_capital
          /\ current_position' = current_position
          /\ trades' = trades
          /\ pc' = "loop"
          /\ current_date' = current_date + inp.rebalance_days]_vars

\* A step has failed while a position was open, and the loop is still running.
C4_Witness ==
    /\ pc = "loop"
    /\ step # None
    /\ step.kind = "failed"
    /\ current_position # None

\* C5: no lookahead: the decision and the risk assessment obtained at a
\* rebalance date come from bars dated on or before it only, so a run whose
\* history differs only after that date (here in today's bar) obtains the same
\* decision there.
C5_NoLookahead ==
    [][DecisionExecuted
       => \A c \in LivePrices :
             AnalyzeAtDate(current_date,
                           AnalysisData(GetStockData(inp), current_date),
                           [inp EXCEPT !.live_close = c],
                           [recommendation |-> decision'.final_recommendation,
                            hints |-> decision'.hints])
             = decision']_vars

\* The stop level is reached within the bar
StopReached(bar, position) == FLe(FInt(bar.Low), position.stop_loss)

\* The target level is reached within the bar
TargetReached(bar, position) == FLe(position.take_profit, FInt(bar.High))

\* C6: the exit rule of _close_position: a scanned bar with low <= stop exits
\* at the stop, with stop_hit and without target_hit, whatever the highs are;
\* otherwise a scanned bar with high >= target exits at the target, with
\* target_hit; otherwise the exit is the close-date bar's close, with no flag.
C6_ExitRule ==
    [][Closes
       => LET position == current_position
              trade == trades'[Len(trades')]
              price_data == GetStockData(inp)
              scanned == BetweenData(price_data, position.entry_date,
                                     trade.exit_date)
              close_bar == price_data[DateData(price_data, trade.exit_date)]
          IN  IF \E i \in scanned : StopReached(price_data[i], position)
              THEN /\ trade.exit_price = position.stop_loss
                   /\ trade.stop_hit
                   /\ ~trade.target_hit
              ELSE IF \E i \in scanned : TargetReached(price_data[i], position)
              THEN /\ trade.exit_price = position.take_profit
                   /\ trade.target_hit
                   /\ ~trade.stop_hit
              ELSE /\ trade.exit_price = FInt(close_bar.Close)
                   /\ ~trade.stop_hit
                   /\ ~trade.target_hit]_vars

\* The run has ended by closing a position stopped out over bars of which one
\* reached the target too.
C6_Witness ==
    /\ pc = "returned"
    /\ current_position # None
    /\ trades # <<>>
    /\ LET trade == trades[Len(trades)]
           price_data == GetStockData(inp)
       IN  /\ trade.entry_date = current_position.entry_date
           /\ trade.stop_hit
           /\ trade.exit_price = current_position.stop_loss
           /\ \E i \in BetweenData(price_data, trade.entry_date, trade.exit_date) :
                 TargetReached(price_data[i], current_position)

\* The bars dated after the entry date and before the close date
StrictlyBetween(price_data, trade) ==
    {i \in 1..Len(price_data) :
        trade.entry_date < price_data[i].Date /\ price_data[i].Date < trade.exit_date}

\* The bars dated after the entry date, up to the close date
UpToCloseDate(price_data, trade) ==
    {i \in 1..Len(price_data) :
        trade.entry_date < price_data[i].Date /\ price_data[i].Date <= trade.exit_date}

C8_InvalidInputsReturnEmpty ==
    (/\ pc # "start"
     /\ \/ ~inp.dates_ok
        \/ GetStockData(inp) = <<>>
        \/ Len(GetStockData(inp)) < inp.rebalance_days)
    => /\ pc = "returned"
       /\ result = [empty |-> TRUE]

(***************************************************************************)
(* The properties of make_decision, stated over SpecTrader.                *)
(***************************************************************************)
\* C9: the confidence of the final decision lies in [0, 1], for every list of
\* responses with confidences in [0, 1], duplicate and unknown names included,
\* and every recommendation and confidence of the language model.
C9_ConfidenceInUnitInterval ==
    final # None =>
        /\ FLe(FInt(0), final.confidence)
        /\ FLe(final.confidence, FInt(1))

\* 1 for the BUY family, -1 for the SELL family, 0 for HOLD
Direction(rec) ==
    IF rec \in {"BUY", "STRONG BUY"} THEN 1
    ELSE IF rec \in {"SELL", "STRONG SELL"} THEN -1
    ELSE 0

\* The contradiction table: opposite directions, or a HOLD consensus against
\* a directional call
Contradicts(qualitative, consensus) ==
    \/ Direction(qualitative) * Direction(consensus) = -1
    \/ consensus = "HOLD" /\ Direction(qualitative) # 0

\* C10: when the agreement level is above 0.7 and the language model's
\* recommendation contradicts the consensus, the final decision is the
\* consensus recommendation with the consensus confidence, and was_overridden
\* is true.
C10_StrongAgreementOverrides ==
    final # None =>
        LET consensus == final.quantitative_decision
        IN  (/\ FLt(Frac(7, 10), consensus.agreement_level)
             /\ Contradicts(final.llm_recommendation, consensus.recommendation))
            => /\ final.recommendation = consensus.recommendation
               /\ final.confidence = consensus.consensus_confidence
               /\ final.was_overridden

\* A directional call has been overridden by a HOLD consensus of responses
\* that do not all agree.
C10_Witness ==
    /\ final # None
    /\ Len(responses) >= 2
    /\ FLt(Frac(7, 10), final.quantitative_decision.agreement_level)
    /\ FLt(final.quantitative_decision.agreement_level, FInt(1))
    /\ final.quantitative_decision.recommendation = "HOLD"
    /\ final.llm_recommendation = "STRONG BUY"
    /\ final.recommendation = "HOLD"
    /\ final.was_overridden

\* The language model's parsed confidence, as a fraction
QualitativeConfidence == Frac(final.llm_confidence, 100)

\* C11: when 0.5 < agreement_level <= 0.7, the language model says STRONG BUY
\* or STRONG SELL and the consensus is BUY, SELL or HOLD, the final
\* recommendation is the language model's without STRONG, the final confidence
\* is the average of its confidence and consensus_confidence, and
\* was_overridden is true.
C11_ModerateAgreementModerates ==
    final # None =>
        LET consensus == final.quantitative_decision
        IN  (/\ FLt(Frac(1, 2), consensus.agreement_level)
             /\ FLe(consensus.agreement_level, Frac(7, 10))
             /\ final.llm_recommendation \in {"STRONG BUY", "STRONG SELL"}
             /\ consensus.recommendation \in {"BUY", "SELL", "HOLD"})
            => /\ final.recommendation =
                     (IF final.llm_recommendation = "STRONG BUY" THEN "BUY"
                      ELSE "SELL")
               /\ final.confidence =
                     FDiv(FAdd(QualitativeConfidence, consensus.consensus_confidence),
                          FInt(2))
               /\ final.was_overridden

\* A STRONG BUY has been moderated to BUY against a SELL consensus of moderate
\* agreement.
C11_Witness ==
    /\ final # None
    /\ FLt(Frac(1, 2), final.quantitative_decision.agreement_level)
    /\ FLe(final.quantitative_decision.agreement_level, Frac(7, 10))
    /\ final.quantitative_decision.recommendation = "SELL"
    /\ final.llm_recommendation = "STRONG BUY"
    /\ final.recommendation = "BUY"

\* C12: when agreement_level <= 0.5, whatever the consensus and the language
\* model recommend, the final recommendation is the language model's, the final
\* confidence is its confidence * (0.5 + 0.5 * agreement_level), and
\* was_overridden is false.
C12_WeakAgreementTrustsQualitative ==
    final # None =>
        LET consensus == final.quantitative_decision
        IN  FLe(consensus.agreement_level, Frac(1, 2))
            => /\ final.recommendation = final.llm_recommendation
               /\ final.confidence =
                     FMul(QualitativeConfidence,
                          FAdd(Frac(1, 2),
                               FMul(Frac(1, 2), consensus.agreement_level)))
               /\ ~final.was_overridden

\* A STRONG BUY has been kept against a SELL consensus of weak, non-zero
\* agreement.
C12_Witness ==
    /\ final # None
    /\ FLe(final.quantitative_decision.agreement_level, Frac(1, 2))
    /\ FLt(FInt(0), final.quantitative_decision.agreement_level)
    /\ final.quantitative_decision.recommendation = "SELL"
    /\ final.llm_recommendation = "STRONG BUY"
    /\ final.recommendation = "STRONG BUY"

\* C13: for every list of responses with confidences in [0, 1],
\* consensus_score is in [-2, 2] and agreement_level in [0, 1].
C13_ConsensusRanges ==
    final # None =>
        LET consensus == final.quantitative_decision
        IN  /\ FLe(FInt(-2), consensus.consensus_score)
            /\ FLe(consensus.consensus_score, FInt(2))
            /\ FLe(FInt(0), consensus.agreement_level)
            /\ FLe(consensus.agreement_level, FInt(1))

\* A consensus of several responses with a score between 1 and 2 and an
\* agreement level between 0 and 1.
C13_Witness ==
    /\ final # None
    /\ Len(responses) >= 2
    /\ FLt(FInt(1), final.quantitative_decision.consensus_score)
    /\ FLt(final.quantitative_decision.consensus_score, FInt(2))
    /\ FLt(FInt(0), final.quantitative_decision.agreement_level)
    /\ FLt(final.quantitative_decision.agreement_level, FInt(1))

\* The configured (or default) weights of the responses, in hundredths
BaseWeights(rs) == [i \in 1..Len(rs) |-> WeightOf(rs[i].agent_name)]

\* C14: consensus_confidence is the sum of confidence * base weight over the
\* responses divided by the sum of the base weights of these same responses.
C14_ConfidenceOverSuppliedWeights ==
    (final # None /\ responses # <<>>) =>
        LET n == Len(responses)
            weights == BaseWeights(responses)
            products == [i \in 1..n |-> responses[i].confidence * weights[i]]
        IN  final.quantitative_decision.consensus_confidence
            = Frac(SumTo(products, n), 100 * SumTo(weights, n))

\* C15: with no response the consensus is HOLD with score 0, confidence 0 and
\* agreement level 1; with responses whose confidences are all 0 the score is
\* 0 and the recommendation HOLD.
C15_EmptyAndZeroConfidence ==
    final # None =>
        LET consensus == final.quantitative_decision
        IN  /\ responses = <<>> =>
                  /\ consensus.recommendation = "HOLD"
                  /\ consensus.consensus_score = FInt(0)
                  /\ consensus.consensus_confidence = FInt(0)
                  /\ consensus.agreement_level = FInt(1)
            /\ (\A i \in 1..Len(responses) : responses[i].confidence = 0) =>
                  /\ consensus.consensus_score = FInt(0)
                  /\ consensus.recommendation = "HOLD"

\* A decision has been made on no response at all.
C15_Witness ==
    /\ final # None
    /\ responses = <<>>
    /\ final.quantitative_decision.recommendation = "HOLD"

\* C16: when all the responses carry the same recommendation, whatever their
\* number and confidences, agreement_level is 1.
C16_UnanimousAgreement ==
    (/\ final # None
     /\ responses # <<>>
     /\ \A i, j \in 1..Len(responses) :
           responses[i].recommendation = responses[j].recommendation)
    => final.quantitative_decision.agreement_level = FInt(1)

\* A decision has been made on several responses of one recommendation, not
\* HOLD, and of different confidences.
C16_Witness ==
    /\ final # None
    /\ Len(responses) >= 2
    /\ \A i, j \in 1..Len(responses) :
          responses[i].recommendation = responses[j].recommendation
    /\ responses[1].recommendation # "HOLD"
    /\ \E i, j \in 1..Len(responses) :
          responses[i].confidence # responses[j].confidence

(***************************************************************************)
(* The properties of _calculate_risk_metrics, stated over SpecRisk.        *)
(***************************************************************************)
\* The current price of the call
RequestPrice == FInt(risk_request.stats.current_price)

\* The position size the dict holds, as a fraction of the portfolio
ReturnedPosition == ParsePercent1(risk_metrics.position_size)

\* C17: for every volatility, price, decision and combination of hints, the
\* position size is at least 0 and at most MAX_POSITION_SIZE.
C17_PositionSizeBounded ==
    risk_metrics # None =>
        /\ FLe(FInt(0), ReturnedPosition)
        /\ FLe(ReturnedPosition, MAX_POSITION_SIZE)

\* A BUY with a position hint of 50% has been sized at the base position.
C17_Witness ==
    /\ risk_metrics # None
    /\ risk_request.trading_decision = "BUY"
    /\ risk_request.stats.volatility = 20
    /\ risk_request.hints.position = Frac(50, 100)
    /\ ReturnedPosition = Frac(75, 1000)

\* C18: for every positive price and combination of hints, a BUY-family
\* assessment has stop_loss_price < current_price < take_profit_price and a
\* SELL-family assessment take_profit_price < current_price < stop_loss_price.
C18_StopAndTargetAroundPrice ==
    risk_metrics # None =>
        /\ risk_request.trading_decision \in {"BUY", "STRONG BUY"} =>
              /\ FLt(risk_metrics.stop_loss_price, RequestPrice)
              /\ FLt(RequestPrice, risk_metrics.take_profit_price)
        /\ risk_request.trading_decision \in {"SELL", "STRONG SELL"} =>
              /\ FLt(risk_metrics.take_profit_price, RequestPrice)
              /\ FLt(RequestPrice, risk_metrics.stop_loss_price)

\* A SELL at 100 has taken over a stop hint of 130 and a target hint of 90.
C18_Witness ==
    /\ risk_metrics # None
    /\ risk_request.trading_decision = "SELL"
    /\ risk_request.stats.current_price = 100
    /\ risk_request.hints.stop = FInt(130)
    /\ risk_request.hints.take = FInt(90)
    /\ risk_metrics.stop_loss_price = FInt(130)
    /\ risk_metrics.take_profit_price = FInt(90)

\* C19: for a HOLD decision, whatever the volatility and the hints, the
\* position size is 0, the stop and the target are unset, the risk/reward
\* ratio is "N/A" and the maximal loss 0.
C19_HoldIsFlat ==
    (risk_metrics # None /\ risk_request.trading_decision = "HOLD") =>
        /\ risk_metrics.position_size = 0
        /\ risk_metrics.stop_loss_price = None
        /\ risk_metrics.take_profit_price = None
        /\ risk_metrics.risk_reward_ratio = NotAvailable
        /\ risk_metrics.max_loss_dollars = 0

\* A HOLD has been assessed with a usable position, stop and target in the
\* text.
C19_Witness ==
    /\ risk_metrics # None
    /\ risk_request.trading_decision = "HOLD"
    /\ risk_request.stats.current_price = 100
    /\ risk_request.hints =
          [position |-> Frac(5, 100), stop |-> FInt(90), take |-> FInt(130)]
    /\ risk_metrics.position_size = 0

\* The adjustment 1.0 / 0.75 / 0.5 / 0.3 for a volatility < 15 / < 25 / < 40 /
\* otherwise
AdjustmentTable(volatility) ==
    IF volatility < 15 THEN FInt(1)
    ELSE IF volatility < 25 THEN Frac(3, 4)
    ELSE IF volatility < 40 THEN Frac(1, 2)
    ELSE Frac(3, 10)

\* C20: each hint is validated on its own and an unusable one gives way to the
\* default: for a BUY-family decision the position hint is used iff it is
\* within [0.01, MAX_POSITION_SIZE] (else MAX_POSITION_SIZE * adjustment), the
\* stop hint iff it is < current_price * 0.99 (else current_price * (1 -
\* STOP_LOSS_PERCENT)), the target hint iff it is > current_price * 1.01 (else
\* current_price * (1 + TAKE_PROFIT_PERCENT)); price 100, volatility 20, BUY
\* and no hints give position 0.075, stop 95, target 115, risk/reward 3.0.
C20_HintsValidatedIndependently ==
    (/\ risk_metrics # None
     /\ risk_request.trading_decision \in {"BUY", "STRONG BUY"})
    => LET hints == risk_request.hints
           volatility == risk_request.stats.volatility
       IN  /\ ReturnedPosition =
                 IF /\ hints.position # None
                    /\ FLe(Frac(1, 100), hints.position)
                    /\ FLe(hints.position, MAX_POSITION_SIZE)
                 THEN hints.position
                 ELSE FMul(MAX_POSITION_SIZE, AdjustmentTable(volatility))
           /\ risk_metrics.stop_loss_price =
                 IF /\ hints.stop # None
                    /\ FLt(hints.stop, FMul(RequestPrice, Frac(99, 100)))
                 THEN hints.stop
                 ELSE FMul(RequestPrice, FSub(FInt(1), STOP_LOSS_PERCENT))
           /\ risk_metrics.take_profit_price =
                 IF /\ hints.take # None
                    /\ FLt(FMul(RequestPrice, Frac(101, 100)), hints.take)
                 THEN hints.take
                 ELSE FMul(RequestPrice, FAdd(FInt(1), TAKE_PROFIT_PERCENT))
           /\ (/\ risk_request.stats.current_price = 100
               /\ volatility = 20
               /\ hints = NoHints)
              => /\ ReturnedPosition = Frac(75, 1000)
                 /\ risk_metrics.stop_loss_price = FInt(95)
                 /\ risk_metrics.take_profit_price = FInt(115)
                 /\ risk_metrics.risk_reward_ratio = [hundredths |-> 300]

(***************************************************************************)
(* The properties of the ledger and of the results, stated over            *)
(* SpecLedger.                                                             *)
(***************************************************************************)
\* The number of trades among the first n of the ledger that made money
RECURSIVE CountWins(_, _)
CountWins(ledger, n) ==
    IF n = 0 THEN 0
    ELSE CountWins(ledger, n - 1)
         + (IF FLt(FInt(0), ledger[n].profit_loss) THEN 1 ELSE 0)

\* C21, as claimed: the win_rate of the result is the number of trades with a
\* positive profit_loss divided by the number of trades, a value in [0,1].
C21_WinRateIsFraction ==
    (pc = "returned" /\ ~result.empty)
    => /\ result.win_rate =
             Frac(CountWins(result.trades, Len(result.trades)), Len(result.trades))
       /\ FLe(FInt(0), result.win_rate)
       /\ FLe(result.win_rate, FInt(1))

\* C21, amended: the win_rate of the result is the percentage of the trades of
\* the ledger with a positive profit_loss, 100 * wins / trades, a value in
\* [0,100].
C21_WinRateIsPercentage ==
    (pc = "returned" /\ ~result.empty)
    => /\ result.trades = trades
       /\ result.win_rate =
             FMul(FInt(100),
                  Frac(CountWins(trades, Len(trades)), Len(trades)))
       /\ FLe(FInt(0), result.win_rate)
       /\ FLe(result.win_rate, FInt(100))

\* A run has returned a result over a won trade and a trade that was not won:
\* a win_rate of 50.
C21_Witness ==
    /\ pc = "returned"
    /\ ~result.empty
    /\ result.win_rate = FInt(50)
    /\ \E i, j \in 1..Len(trades) :
          /\ trades[i].profit_loss.num > 0
          /\ trades[j].profit_loss.num <= 0
\* C22: the ledger is append-only: every step of run_backtest leaves it as it
\* is or appends exactly one trade at its end; no trade already in it is
\* modified, reordered or removed.
C22_LedgerAppendOnly ==
    [][\/ trades' = trades
       \/ /\ Len(trades') = Len(trades) + 1
          /\ \A i \in 1..Len(trades) : trades'[i] = trades[i]]_vars

\* A second trade has been appended behind a first one.
C22_Witness ==
    /\ Len(trades) >= 2
    /\ trades[1].exit_date < trades[2].entry_date
\* The number of positions a value of current_position stands for
OpenCount(position) == IF position = None THEN 0 ELSE 1

\* The step from the current state is an iteration of the date loop that
\* opens a position.
OpensPosition ==
    /\ DecisionExecuted
    /\ decision'.final_recommendation \in BuyRecs

\* C23: position lifecycle: the number of positions opened so far is the
\* number of trades in the ledger plus the number (0 or 1) of open positions.
\* It is so before any position is opened; it stays so when every iteration
\* of the date loop opens as many positions as it adds to the trades and to
\* the open positions together, so that none is discarded without a trade.
C23_PositionLifecycle ==
    [][(pc = "loop" /\ pc' = "loop")
       => (IF OpensPosition THEN 1 ELSE 0)
          = (Len(trades') - Len(trades))
            + (OpenCount(current_position') - OpenCount(current_position))]_vars
ClosingRecs == {"SELL", "STRONG SELL", "HOLD"}

\* The step from the current state is an iteration of the date loop whose
\* decision is SELL, STRONG SELL or HOLD while a position is open.
DecidesToClose ==
    /\ pc = "loop"
    /\ current_date' > current_date
    /\ step'.kind \in {"executed", "failed"}
    /\ current_position # None
    /\ decision' # None
    /\ decision'.final_recommendation \in ClosingRecs

\* C24: when a position is open and the decision at a rebalance date is SELL,
\* STRONG SELL or HOLD, the step closes it at that date: afterwards no position
\* is open, exactly one trade has been appended, with that date as exit_date
\* and the position's entry data, and the capital has changed by the trade's
\* profit_loss = (exit_price - entry_price) * shares.
C24_SellOrHoldCloses ==
    [][DecidesToClose
       => /\ current_position' = None
          /\ Len(trades') = Len(trades) + 1
          /\ \A i \in 1..Len(trades) : trades'[i] = trades[i]
          /\ LET trade == trades'[Len(trades')]
             IN  /\ trade.exit_date = current_date
                 /\ trade.entry_date = current_position.entry_date
                 /\ trade.entry_price = current_position.entry_price
                 /\ trade.profit_loss =
                       FMul(FSub(trade.exit_price, trade.entry_price),
                            current_position.shares)
                 /\ current_capital' = FAdd(current_capital, trade.profit_loss)]_vars
(***************************************************************************)
(* The date loop, stated over SpecFair.                                    *)
(***************************************************************************)
\* The dates start + k * interval (start is day 1)
OnTheGrid(date) ==
    \E k \in 0..date : date = 1 + k * inp.rebalance_days

\* C25: for a rebalance interval of at least one day the date loop
\* terminates, and its decision points are exactly the dates
\* start + k * interval before end, each visited once, in increasing order:
\* the loop starts at start, every iteration (skipped, failed or executed) is
\* at a date before end and advances the date by exactly one interval, and the
\* loop is left only at a date that is not before end.
C25_DateLoop ==
    /\ []((pc = "loop" /\ inp.rebalance_days >= 1) => OnTheGrid(current_date))
    /\ [][(pc = "start" /\ pc' = "loop") => current_date' = 1]_vars
    /\ [][(pc = "loop" /\ pc' = "loop")
           => /\ current_date < inp.end_day
              /\ step'.date = current_date
              /\ current_date' = current_date + inp.rebalance_days]_vars
    /\ [][(pc = "loop" /\ pc' # "loop") => ~(current_date < inp.end_day)]_vars
    /\ <>(pc \in {"returned", "raised"})

\* A run with two days between decisions has returned after a skipped and an
\* executed iteration.
C25_Witness ==
    /\ pc = "returned"
    /\ inp.rebalance_days = 2
    /\ decision # None
    /\ current_date >= inp.end_day
(***************************************************************************)
(* More properties of make_decision, stated over SpecTrader.               *)
(***************************************************************************)
\* Twice the distance from the score to the integer k, as a fraction
TwiceDistance(score, k) ==
    LET diff == FSub(score, FInt(k))
    IN  IF diff.num < 0 THEN FMul(FInt(-2), diff) ELSE FMul(FInt(2), diff)

\* The integers of [-2, 2] the score rounds to: the nearest one, and of two
\* equally near ones the even one
NearestInRange(score) ==
    {k \in -2..2 :
        \/ FLt(TwiceDistance(score, k), FInt(1))
        \/ TwiceDistance(score, k) = FInt(1) /\ k % 2 = 0}

\* The label of an integer score
LabelOf(k) ==
    CASE k = 2 -> "STRONG BUY"
      [] k = 1 -> "BUY"
      [] k = 0 -> "HOLD"
      [] k = -1 -> "SELL"
      [] k = -2 -> "STRONG SELL"

\* C26: the consensus recommendation is the label of consensus_score rounded
\* to the nearest integer and clamped to [-2, 2], a score half-way between two
\* integers being rounded to the even one: 0.5 and -0.5 give HOLD, 1.5 gives
\* STRONG BUY and -1.5 gives STRONG SELL.
C26_ConsensusRoundsHalfToEven ==
    final # None =>
        LET consensus == final.quantitative_decision
            score == consensus.consensus_score
        IN  /\ \E k \in NearestInRange(score) :
                  consensus.recommendation = LabelOf(k)
            /\ Cardinality(NearestInRange(score)) = 1
            /\ score \in {Frac(1, 2), Frac(-1, 2)} => consensus.recommendation = "HOLD"
            /\ score = Frac(3, 2) => consensus.recommendation = "STRONG BUY"
            /\ score = Frac(-3, 2) => consensus.recommendation = "STRONG SELL"

\* A consensus has been computed from a score of exactly -0.5.
C26_Witness ==
    /\ final # None
    /\ final.quantitative_decision.consensus_score = Frac(-1, 2)
    /\ final.quantitative_decision.recommendation = "HOLD"
\* The strong-agreement override applies (C10)
OverrideCase(consensus, qualitative) ==
    /\ FLt(Frac(7, 10), consensus.agreement_level)
    /\ Contradicts(qualitative, consensus.recommendation)

\* The moderate-agreement moderation applies (C11)
ModerationCase(consensus, qualitative) ==
    /\ FLt(Frac(1, 2), consensus.agreement_level)
    /\ FLe(consensus.agreement_level, Frac(7, 10))
    /\ qualitative \in {"STRONG BUY", "STRONG SELL"}
    /\ consensus.recommendation \in {"BUY", "SELL", "HOLD"}

\* C27: in every case of _reconcile_decisions that is neither the
\* strong-agreement override nor the moderate-agreement moderation (agreement
\* above 0.7 without contradiction, a HOLD call against a directional
\* consensus included; agreement in (0.5, 0.7] with a call that is not extreme
\* or a consensus that is), the final recommendation is the qualitative one,
\* the final confidence is its confidence * (0.5 + 0.5 * agreement_level), and
\* was_overridden is false.
C27_OtherCasesTrustQualitative ==
    final # None =>
        LET consensus == final.quantitative_decision
            qualitative == final.llm_recommendation
        IN  (/\ FLt(Frac(1, 2), consensus.agreement_level)
             /\ ~OverrideCase(consensus, qualitative)
             /\ ~ModerationCase(consensus, qualitative))
            => /\ final.recommendation = qualitative
               /\ final.confidence =
                     FMul(QualitativeConfidence,
                          FAdd(Frac(1, 2),
                               FMul(Frac(1, 2), consensus.agreement_level)))
               /\ ~final.was_overridden

\* A HOLD call has been kept against a directional consensus of strong
\* agreement, at a confidence below the call's own.
C27_Witness ==
    /\ final # None
    /\ FLt(Frac(7, 10), final.quantitative_decision.agreement_level)
    /\ FLt(final.quantitative_decision.agreement_level, FInt(1))
    /\ Direction(final.quantitative_decision.recommendation) # 0
    /\ final.llm_recommendation = "HOLD"
    /\ final.recommendation = "HOLD"
    /\ FLt(final.confidence, QualitativeConfidence)

\* A STRONG BUY call has been kept against a STRONG SELL consensus of
\* moderate agreement.
C27_WitnessModerate ==
    /\ final # None
    /\ FLt(Frac(1, 2), final.quantitative_decision.agreement_level)
    /\ FLe(final.quantitative_decision.agreement_level, Frac(7, 10))
    /\ final.quantitative_decision.recommendation \in {"STRONG BUY", "STRONG SELL"}
    /\ final.llm_recommendation \in {"STRONG BUY", "STRONG SELL"}
(***************************************************************************)
(* More properties of run_backtest, stated over Spec.                      *)
(***************************************************************************)
\* C28: every trade of the ledger with stop_hit has a strictly negative
\* profit_loss and return_pct, and every trade with target_hit a strictly
\* positive profit_loss and return_pct; that is, every position opened has
\* stop level < entry_price < target level.
C28_StopLosesTargetWins ==
    /\ \A i \in 1..Len(trades) :
          /\ trades[i].stop_hit =>
                /\ FLt(trades[i].profit_loss, FInt(0))
                /\ FLt(trades[i].return_pct, FInt(0))
          /\ trades[i].target_hit =>
                /\ FLt(FInt(0), trades[i].profit_loss)
                /\ FLt(FInt(0), trades[i].return_pct)
    /\ (pc = "loop" /\ current_position # None) =>
          /\ FLt(current_position.stop_loss, current_position.entry_price)
          /\ FLt(current_position.entry_price, current_position.take_profit)
(***************************************************************************)
(* The dates of the ledger, stated over SpecLedger.                        *)
(***************************************************************************)
\* C29: every trade of the ledger has its entry_date strictly before its
\* exit_date (no position is opened and closed within one decision step, and
\* the final force-close is dated at the end date), and the exit dates do not
\* decrease along the ledger.
C29_LedgerDates ==
    /\ \A i \in 1..Len(trades) :
          /\ trades[i].entry_date < trades[i].exit_date
          /\ trades[i].exit_date <= inp.end_day
    /\ \A i, j \in 1..Len(trades) :
          i < j => trades[i].exit_date <= trades[j].exit_date
    /\ (pc = "returned" /\ step.kind = "exit" /\ current_position # None) =>
          /\ trades # <<>>
          /\ trades[Len(trades)].entry_date = current_position.entry_date
          /\ trades[Len(trades)].exit_date = inp.end_day

\* A run has returned a ledger of two trades, the second one force-closed at
\* the end date from a position priced on a later day's bar.
C29_Witness ==
    /\ pc = "returned"
    /\ Len(trades) = 2
    /\ current_position # None
    /\ trades[2].exit_date = inp.end_day
    /\ trades[1].exit_date < trades[2].exit_date
    /\ \E i \in 1..Len(trades) :
          \A k \in 1..Len(GetStockData(inp)) :
              GetStockData(inp)[k].Date # trades[i].entry_date

(***************************************************************************)
(* The properties of _call_llm, stated over SpecLlm.                       *)
(***************************************************************************)
\* The words that make an error an overload, as the specification lists them.
OverloadWords == {"503", "overloaded", "429"}

\* The text of the error names a 503, an overload or a 429, in any case of
\* letters.
NamesOverload(e) ==
    \E i \in DOMAIN e :
        \/ e[i] \in OverloadWords
        \/ e[i] = "Overloaded"

\* The step from the current state is an attempt of _call_llm: one request.
IsAttempt == llm_pc = "trying" /\ llm_event' # llm_event

\* C30: _call_llm makes at most 5 attempts.  An attempt that fails on an
\* error naming 503, "overloaded" or 429 is followed by another attempt
\* unless it was the fifth, after which the call raises; an attempt that
\* fails on any other error makes the call raise at once; a failed attempt
\* leaves the conversation history as it was.  An attempt that succeeds ends
\* the call and appends one user entry, the call's message, and one assistant
\* entry, the answer, to the history.  The start of a call leaves the history
\* as it was.
C30_CallLlmRetries ==
    /\ [](llm_pc = "trying" => attempt + 1 <= max_retries)
    /\ [][IsAttempt =>
            /\ llm_event'.kind \in {"ok", "overloaded", "other"}
            /\ llm_event'.attempt = attempt
            /\ llm_event'.kind = "ok" =>
                /\ llm_pc' = "returned"
                /\ Len(conversation_history') = Len(conversation_history) + 2
                /\ SubSeq(conversation_history', 1, Len(conversation_history))
                        = conversation_history
                /\ conversation_history'[Len(conversation_history) + 1]
                        = [role |-> "user", content |-> user_message]
                /\ conversation_history'[Len(conversation_history) + 2]
                        = [role |-> "assistant", content |-> llm_event'.returned]
            /\ llm_event'.kind # "ok" =>
                /\ conversation_history' = conversation_history
                /\ llm_event'.kind = "overloaded" <=> NamesOverload(llm_event'.error)
            /\ llm_event'.kind = "overloaded" =>
                IF attempt + 1 < 5
                THEN llm_pc' = "trying" /\ attempt' = attempt + 1
                ELSE llm_pc' = "raised"
            /\ llm_event'.kind = "other" => llm_pc' = "raised"]_vars
    /\ [][~IsAttempt => conversation_history' = conversation_history]_vars

\* A call has raised after its fifth attempt failed on an overload, made by
\* an agent whose earlier call succeeded: the history holds that call's two
\* entries and nothing of the failed one.
C30_Witness ==
    /\ llm_pc = "raised"
    /\ llm_event.kind = "overloaded"
    /\ llm_event.attempt = 4
    /\ Len(conversation_history) = 2

====
